---- MODULE Spec2Model ----
(***************************************************************************)
(* TextSelectionLayout (src/src/layout/text_selection.rs): the two-pass,   *)
(* dirty-tracked layout of a text-selection cursor.  One strategy instance *)
(* per node holds a DirtySize cache (desired_size) and the previous        *)
(* selection (old_text_selection); measure and arrange walk the tree       *)
(* recursively through the registry of layouts.                            *)
(***************************************************************************)
EXTENDS Integers, Sequences, FiniteSets, TLC

(***************************************************************************)
(* Bounds of the model.                                                    *)
(***************************************************************************)
\* Largest selection start index the application sets in the tree runs.
MaxIndex == 1
\* Largest constraint width / height the application sets.
MaxDim == 2
\* Largest height the driver grants to the entity it arranges.
MaxParent == 2
\* Number of earlier operations a tracked run remembers.
MaxHist == 4
\* Largest explicit offset the application gives the caret.
MaxOffset == 1
\* Largest font size the application sets in the caret runs.
MaxFont == 2

(***************************************************************************)
(* The scene: a tree of four entities, 1 the root, and the components each *)
(* entity carries.  Entity 1 is a text box with text, selection, margin    *)
(* and bounds; entity 2 is a plain container; entity 3 has bounds but no   *)
(* selection; entity 4 is a nested cursor with a selection only.           *)
(***************************************************************************)
Nodes == 1 .. 4

\* tree.children[&entity], in the order the tree enumerates them.
children == << <<2, 3>>, <<4>>, <<>>, <<>> >>

Root == CHOOSE n \in Nodes : \A m \in Nodes : \A i \in 1 .. Len(children[m]) : children[m][i] # n

HasSelection == {1, 4}
HasText == {1}
HasMargin == {1}
HasBounds == {1, 3}

\* Text of each entity, one character per element.
TextOf == << <<"a", " ">>, <<>>, <<>>, <<>> >>
\* Vertical alignment of each entity.
VerticalAlignmentOf == <<"Stretch", "Center", "Top", "Stretch">>
\* Top and bottom margin of each entity (never written by the layout).
MarginTopOf == <<1, 0, 0, 0>>
MarginBottomOf == <<0, 0, 0, 0>>
\* The constraint, font size and offset each entity is built with.
InitialConstraint == << <<2, 1>>, <<0, 0>>, <<0, 0>>, <<0, 1>> >>
InitialFontSize == <<2, 2, 2, 2>>
InitialOffset == << <<>>, <<>>, <<>>, <<>> >>

VARIABLES
    visibility,          \* ecm: Visibility of each entity
    constraint,          \* ecm: Constraint of each entity, [width, height]
    text_selection,      \* ecm: TextSelection of each entity that has one
    font_size,           \* ecm: FontSize of each entity
    offset,              \* ecm: Offset of each entity, <<>> when it has none
    margin_left,         \* ecm: left component of each entity's Margin
    bounds,              \* ecm: Bounds of each entity, [width, height]
    layouts,             \* the registry: entities with a TextSelectionLayout
    desired_size,        \* per layout: the DirtySize cache
    old_text_selection,  \* per layout: the cached prior selection
    call,                \* the operation the last step performed
    ret,                 \* what that operation returned
    log,                 \* the calls and writes that operation made, in order
    hist                 \* the operations of the latest steps (tracked runs only)

vars == << visibility, constraint, text_selection, font_size, offset, margin_left,
           bounds, layouts, desired_size, old_text_selection, call, ret, log, hist >>

(***************************************************************************)
(* Value types.                                                            *)
(***************************************************************************)
Selection(i) == [start_index |-> i, end_index |-> i]

DefaultSelection == Selection(0)

Size(w, h) == [width |-> w, height |-> h]

DirtySizeOf(w, h, d) == [width |-> w, height |-> h, dirty |-> d]

(***************************************************************************)
(* DirtySize (structs::DirtySize).                                         *)
(***************************************************************************)
set_size(ds, w, h) == [ds EXCEPT !.width = w, !.height = h]

\* set_width adding to the width instead of replacing it
set_width_adds(ds, w) == [ds EXCEPT !.width = @ + w]

set_width(ds, w) == [ds EXCEPT !.width = w]

set_height(ds, h) == [ds EXCEPT !.height = h]

set_dirty(ds, d) == [ds EXCEPT !.dirty = d]

size(ds) == Size(ds.width, ds.height)

dirty(ds) == ds.dirty

(***************************************************************************)
(* VerticalAlignment::align_height and the font-measurement oracle.        *)
(***************************************************************************)
align_height(alignment, available_height, height, top, bottom) ==
    IF alignment = "Stretch" THEN available_height - top - bottom ELSE height

\* FONT_MEASURE.measure(text, font, font_size).0 of an idealized monospace
\* font: every glyph is as many pixels wide as the font size px.
font_measure_width(text, px) == Len(text) * px

(***************************************************************************)
(* The walk's state: the parts of the program state measure and arrange    *)
(* write, threaded through the recursion, with the log of what was done.   *)
(***************************************************************************)
Event(ev, n, w, h) == [ev |-> ev, node |-> n, w |-> w, h |-> h]

Current == [desired_size |-> desired_size,
            old_text_selection |-> old_text_selection,
            margin_left |-> margin_left,
            bounds |-> bounds,
            ret |-> Size(0, 0),
            log |-> <<>>]

\* the value a call hands back to its caller
Returned(st, v) == [st EXCEPT !.ret = v]

Logged(st, ev, n, w, h) == [st EXCEPT !.log = Append(@, Event(ev, n, w, h))]

BoolNum(b) == IF b THEN 1 ELSE 0

(***************************************************************************)
(* measure, lines 43-97.                                                   *)
(***************************************************************************)
\* line 51: the early return of a collapsed entity
IsCollapsed(entity) == visibility[entity] = "Collapsed"

\* lines 52-53 without the set_size(0.0, 0.0)
measure_collapsed_keeps_size(st, entity) == st

\* lines 52-53
measure_collapsed(st, entity) ==
    [st EXCEPT !.desired_size[entity] = set_size(@, 0, 0)]

\* line 59 with the comparison made against the value just read
selection_compared_to_itself(selection, old) == selection # selection

\* line 59 with the test dropped: every measure marks the cache dirty
selection_always_changed(selection, old) == TRUE

\* line 59
selection_changed(selection, old) == selection # old

\* lines 58-64 with the store of line 63 left out
measure_selection_not_stored(st, entity) ==
    IF entity \in HasSelection
          /\ selection_changed(text_selection[entity], st.old_text_selection[entity])
    THEN [st EXCEPT !.desired_size[entity] = set_dirty(@, TRUE)]
    ELSE st

\* lines 58-64
measure_selection(st, entity) ==
    IF entity \in HasSelection
    THEN LET selection == text_selection[entity]
             s1 == IF selection_changed(selection, st.old_text_selection[entity])
                   THEN [st EXCEPT !.desired_size[entity] = set_dirty(@, TRUE)]
                   ELSE st
         IN  [s1 EXCEPT !.old_text_selection[entity] = selection]
    ELSE st

\* lines 68-71 with the child's flag dropped from the merge
merge_dirty_own_only(child_dirty, own_dirty) == own_dirty

\* lines 68-71 with && in place of ||
merge_dirty_and(child_dirty, own_dirty) == child_dirty /\ own_dirty

\* lines 68-71: the child's returned flag merged with the node's own
merge_dirty(child_dirty, own_dirty) == child_dirty \/ own_dirty

\* lines 76-84 adding the constraint to the cached size instead of overwriting it
measure_constraint_accumulates(st, entity) ==
    LET c == constraint[entity]
        ds == st.desired_size[entity]
    IN  [st EXCEPT !.desired_size[entity] =
            set_size(@, IF c.width > 0 THEN ds.width + c.width ELSE ds.width,
                        IF c.height > 0 THEN ds.height + c.height ELSE ds.height)]

\* lines 76-84 with the test >= 0.0: a zero constraint overwrites the cache
measure_constraint_zero_applies(st, entity) ==
    LET c == constraint[entity]
        ds == st.desired_size[entity]
    IN  [st EXCEPT !.desired_size[entity] =
            set_size(@, IF c.width >= 0 THEN c.width ELSE ds.width,
                        IF c.height >= 0 THEN c.height ELSE ds.height)]

\* lines 76-84
measure_constraint(st, entity) ==
    LET c == constraint[entity]
        s1 == IF c.width > 0
              THEN [st EXCEPT !.desired_size[entity] = set_width(@, c.width)]
              ELSE st
    IN  IF c.height > 0
        THEN [s1 EXCEPT !.desired_size[entity] = set_height(@, c.height)]
        ELSE s1

\* lines 67 and 150 with the lookup never failing
is_registered_always(reg, child) == TRUE

\* lines 67 and 150: layouts.borrow().get(child) is Some
is_registered(reg, child) == child \in reg

RECURSIVE measure(_, _)
RECURSIVE measure_children(_, _, _)

\* lines 66-74 and 86-94
measure_children(st, entity, kids) ==
    IF kids = <<>> THEN st
    ELSE LET child == Head(kids)
             s1 == IF is_registered(layouts, child)
                   THEN LET c == measure(st, child)
                            d == merge_dirty(dirty(c.ret), dirty(c.desired_size[entity]))
                        IN  [c EXCEPT !.desired_size[entity] = set_dirty(@, d)]
                   ELSE st
         IN  measure_children(s1, entity, Tail(kids))

\* lines 56-94 without the first loop over the children (lines 66-74)
measure_body_second_loop_only(st, entity) ==
    LET s1 == measure_selection(st, entity)
        s2 == measure_constraint(s1, entity)
    IN  measure_children(s2, entity, children[entity])

\* lines 56-94: the body of measure for an entity that is not collapsed
measure_body(st, entity) ==
    LET s1 == measure_selection(st, entity)
        s2 == measure_children(s1, entity, children[entity])
        s3 == measure_constraint(s2, entity)
    IN  measure_children(s3, entity, children[entity])

\* lines 53 and 96: self.desired_size.borrow().clone()
measure(st, entity) ==
    LET s0 == Logged(st, "measure", entity, 0, 0)
        s1 == IF IsCollapsed(entity)
              THEN measure_collapsed(s0, entity)
              ELSE measure_body(s0, entity)
    IN  Returned(s1, s1.desired_size[entity])

(***************************************************************************)
(* measure restructured as "measure children once, after constraints are   *)
(* applied": lines 43-97 with the loop of lines 66-74 removed, at every     *)
(* level of the tree.                                                      *)
(***************************************************************************)
RECURSIVE measure_once(_, _)
RECURSIVE measure_once_children(_, _, _)

measure_once_children(st, entity, kids) ==
    IF kids = <<>> THEN st
    ELSE LET child == Head(kids)
             s1 == IF is_registered(layouts, child)
                   THEN LET c == measure_once(st, child)
                            d == merge_dirty(dirty(c.ret), dirty(c.desired_size[entity]))
                        IN  [c EXCEPT !.desired_size[entity] = set_dirty(@, d)]
                   ELSE st
         IN  measure_once_children(s1, entity, Tail(kids))

measure_once(st, entity) ==
    LET s0 == Logged(st, "measure", entity, 0, 0)
        s1 == IF IsCollapsed(entity)
              THEN measure_collapsed(s0, entity)
              ELSE LET s2 == measure_selection(s0, entity)
                       s3 == measure_constraint(s2, entity)
                   IN  measure_once_children(s3, entity, children[entity])
    IN  Returned(s1, s1.desired_size[entity])

(***************************************************************************)
(* arrange, lines 99-162.                                                  *)
(***************************************************************************)
\* line 108 with the test inverted
short_circuit_inverted(ds) == dirty(ds)

\* line 108
short_circuit(ds) == ~dirty(ds)

\* text.0.get(0..selection.start_index): the prefix, or none when
\* start_index is beyond the text
HasPrefix(text, start_index) == start_index <= Len(text)

Prefix(text, start_index) == SubSeq(text, 1, start_index)

\* text_part.ends_with(" ")
EndsWithSpace(text_part) == Len(text_part) > 0 /\ text_part[Len(text_part)] = " "

\* lines 133-136: the integer pixel width of "a", halved
half_glyph(px) == font_measure_width(<<"a">>, px) \div 2

\* lines 112, 122-139 with a start_index beyond the text clamped to its end
caret_pos_clamped(entity) ==
    IF entity \in HasText /\ entity \in HasSelection
    THEN LET text == TextOf[entity]
             i == text_selection[entity].start_index
             text_part == Prefix(text, IF HasPrefix(text, i) THEN i ELSE Len(text))
             w == font_measure_width(text_part, font_size[entity])
         IN  IF EndsWithSpace(text_part) THEN w + half_glyph(font_size[entity]) ELSE w
    ELSE 0

\* lines 112, 122-139
caret_pos(entity) ==
    IF entity \in HasText /\ entity \in HasSelection
          /\ HasPrefix(TextOf[entity], text_selection[entity].start_index)
    THEN LET text_part == Prefix(TextOf[entity], text_selection[entity].start_index)
             w == font_measure_width(text_part, font_size[entity])
         IN  IF EndsWithSpace(text_part) THEN w + half_glyph(font_size[entity]) ELSE w
    ELSE 0

\* lines 141-143
offset_pos(entity, pos) ==
    IF offset[entity] # <<>> THEN pos + offset[entity][1] ELSE pos

\* lines 145-147 with pos added to the left margin the entity holds
arrange_margin_adds(st, entity, pos) ==
    IF entity \in HasMargin
    THEN Logged([st EXCEPT !.margin_left[entity] = @ + pos], "set_left", entity, pos, 0)
    ELSE st

\* lines 145-147
arrange_margin(st, entity, pos) ==
    IF entity \in HasMargin
    THEN Logged([st EXCEPT !.margin_left[entity] = pos], "set_left", entity, pos, 0)
    ELSE st

\* lines 155-158 writing the cached height instead of the aligned one
arrange_bounds_cached_height(st, entity, sz) ==
    IF entity \in HasBounds
    THEN LET h == st.desired_size[entity].height
         IN  Logged([st EXCEPT !.bounds[entity] = Size(sz.width, h)],
                    "set_bounds", entity, sz.width, h)
    ELSE st

\* lines 155-158
arrange_bounds(st, entity, sz) ==
    IF entity \in HasBounds
    THEN Logged([st EXCEPT !.bounds[entity] = sz], "set_bounds", entity, sz.width, sz.height)
    ELSE st

\* line 160 left out
arrange_clear_skipped(st, entity) == st

\* line 160
arrange_clear(st, entity) ==
    Logged([st EXCEPT !.desired_size[entity] = set_dirty(@, FALSE)],
           "set_dirty", entity, BoolNum(FALSE), 0)

\* lines 113-120: the size arrange works with and returns when it runs
arranged_size(ds, parent_size, entity) ==
    Size(ds.width,
         align_height(VerticalAlignmentOf[entity], parent_size.height, ds.height,
                      MarginTopOf[entity], MarginBottomOf[entity]))

\* the value arrange returns, lines 109 and 161
arrange_result(ds, parent_size, entity) ==
    IF short_circuit(ds) THEN size(ds) ELSE arranged_size(ds, parent_size, entity)

RECURSIVE arrange(_, _, _)
RECURSIVE arrange_children(_, _, _, _)

\* lines 149-153
arrange_children(st, sz, entity, kids) ==
    IF kids = <<>> THEN st
    ELSE LET child == Head(kids)
             s1 == IF is_registered(layouts, child) THEN arrange(st, sz, child) ELSE st
         IN  arrange_children(s1, sz, entity, Tail(kids))

\* lines 145-161 with the bounds written before the children are arranged
arrange_body_bounds_first(st, sz, entity) ==
    LET s1 == arrange_margin(st, entity, offset_pos(entity, caret_pos(entity)))
        s2 == arrange_bounds(s1, entity, sz)
        s3 == arrange_children(s2, sz, entity, children[entity])
    IN  arrange_clear(s3, entity)

\* lines 145-161: what a running arrange does after computing size and pos
arrange_body(st, sz, entity) ==
    LET s1 == arrange_margin(st, entity, offset_pos(entity, caret_pos(entity)))
        s2 == arrange_children(s1, sz, entity, children[entity])
        s3 == arrange_bounds(s2, entity, sz)
    IN  arrange_clear(s3, entity)

arrange(st, parent_size, entity) ==
    LET s0 == Logged(st, "arrange", entity, parent_size.width, parent_size.height)
        ds == s0.desired_size[entity]
        sz == arrange_result(ds, parent_size, entity)
        s1 == IF short_circuit(ds) THEN s0 ELSE arrange_body(s0, sz, entity)
    IN  Returned(Logged(s1, "return", entity, sz.width, sz.height), sz)


(***************************************************************************)
(* Inputs the driver and the application draw from.                        *)
(***************************************************************************)
Visibilities == {"Visible", "Collapsed"}

ConstraintValues == 0 .. MaxDim

Constraints == {Size(w, h) : w \in ConstraintValues, h \in ConstraintValues}

Selections == {Selection(i) : i \in 0 .. MaxIndex}

ParentSizes == {Size(MaxParent, h) : h \in 1 .. MaxParent}

\* constraints with an unconstrained axis given as 0 or as a negative value
SignedConstraints == {Size(w, h) : w \in -1 .. MaxDim, h \in -1 .. MaxDim}

\* selections of the text box: every index of its text and one beyond it
CaretSelections == {Selection(i) : i \in 0 .. Len(TextOf[Root]) + 1}

\* the Offset component: absent, or a scalar
Offsets == {<<>>} \cup {<<o>> : o \in 1 .. MaxOffset}

FontSizes == 1 .. MaxFont

NoCall == [op |-> "none", node |-> 0, arg |-> Size(0, 0)]

Op(op, n) == [op |-> op, node |-> n]

(***************************************************************************)
(* Init: the scene as built, every layout freshly constructed              *)
(* (TextSelectionLayout::default, lines 24-34).  The default of the dirty  *)
(* flag is DirtySize's, which the layout does not set: both values are     *)
(* admitted.                                                               *)
(***************************************************************************)
Init ==
    /\ visibility = [n \in Nodes |-> "Visible"]
    /\ constraint = [n \in Nodes |-> Size(InitialConstraint[n][1], InitialConstraint[n][2])]
    /\ text_selection = [n \in Nodes |-> DefaultSelection]
    /\ font_size = [n \in Nodes |-> InitialFontSize[n]]
    /\ offset = [n \in Nodes |-> InitialOffset[n]]
    /\ margin_left = [n \in Nodes |-> 0]
    /\ bounds = [n \in Nodes |-> Size(0, 0)]
    /\ layouts = Nodes
    /\ \E d \in BOOLEAN : desired_size = [n \in Nodes |-> DirtySizeOf(0, 0, d)]
    /\ old_text_selection = [n \in Nodes |-> DefaultSelection]
    /\ call = NoCall
    /\ ret = Size(0, 0)
    /\ log = <<>>
    /\ hist = <<>>

(***************************************************************************)
(* Steps.  Each leaves hist to the specification that uses it.             *)
(***************************************************************************)
Written(st) ==
    /\ desired_size' = st.desired_size
    /\ old_text_selection' = st.old_text_selection
    /\ margin_left' = st.margin_left
    /\ bounds' = st.bounds
    /\ ret' = st.ret
    /\ log' = st.log

InputDone ==
    /\ call' = [op |-> "input", node |-> 0, arg |-> Size(0, 0)]
    /\ ret' = Size(0, 0)
    /\ log' = <<>>
    /\ UNCHANGED << margin_left, bounds, layouts, desired_size, old_text_selection >>

\* the driver calls layout.measure(entity, ...)
MeasureStep(n) ==
    /\ n \in layouts
    /\ Written(measure(Current, n))
    /\ call' = [op |-> "measure", node |-> n, arg |-> Size(0, 0)]
    /\ UNCHANGED << visibility, constraint, text_selection, font_size, offset, layouts >>

\* the driver calls layout.arrange(parent_size, entity, ...)
ArrangeStep(n, p) ==
    /\ n \in layouts
    /\ Written(arrange(Current, p, n))
    /\ call' = [op |-> "arrange", node |-> n, arg |-> p]
    /\ UNCHANGED << visibility, constraint, text_selection, font_size, offset, layouts >>

\* between passes: the application changes a component
SetSelectionStep(n, s) ==
    /\ n \in HasSelection
    /\ text_selection[n] # s
    /\ text_selection' = [text_selection EXCEPT ![n] = s]
    /\ InputDone
    /\ UNCHANGED << visibility, constraint, font_size, offset >>

SetVisibilityStep(n, v) ==
    /\ visibility[n] # v
    /\ visibility' = [visibility EXCEPT ![n] = v]
    /\ InputDone
    /\ UNCHANGED << constraint, text_selection, font_size, offset >>

SetConstraintStep(n, c) ==
    /\ constraint[n] # c
    /\ constraint' = [constraint EXCEPT ![n] = c]
    /\ InputDone
    /\ UNCHANGED << visibility, text_selection, font_size, offset >>

SetOffsetStep(n, o) ==
    /\ offset[n] # o
    /\ offset' = [offset EXCEPT ![n] = o]
    /\ InputDone
    /\ UNCHANGED << visibility, constraint, text_selection, font_size >>

SetFontSizeStep(n, f) ==
    /\ font_size[n] # f
    /\ font_size' = [font_size EXCEPT ![n] = f]
    /\ InputDone
    /\ UNCHANGED << visibility, constraint, text_selection, offset >>

\* the application registers the layout of an entity already in the tree
RegisterStep(n) ==
    /\ n \notin layouts
    /\ layouts' = layouts \cup {n}
    /\ call' = [op |-> "input", node |-> 0, arg |-> Size(0, 0)]
    /\ ret' = Size(0, 0)
    /\ log' = <<>>
    /\ UNCHANGED << visibility, constraint, text_selection, font_size, offset,
                    margin_left, bounds, desired_size, old_text_selection >>

\* a tracked run remembers its latest MaxHist operations
Track(op, n) ==
    LET h == Append(hist, Op(op, n))
    IN  hist' = IF Len(h) > MaxHist THEN Tail(h) ELSE h

(***************************************************************************)
(* Spec: the driver measures and arranges the tree from its root; between  *)
(* the calls the application moves the nested cursor and shows or          *)
(* collapses any entity.                                                   *)
(***************************************************************************)
Measure(n) == MeasureStep(n) /\ UNCHANGED hist

Arrange(n, p) == ArrangeStep(n, p) /\ UNCHANGED hist

SetSelection(n, s) == SetSelectionStep(n, s) /\ UNCHANGED hist

SetVisibility(n, v) == SetVisibilityStep(n, v) /\ UNCHANGED hist

Next ==
    \/ Measure(Root)
    \/ \E p \in ParentSizes : Arrange(Root, p)
    \/ \E n \in HasSelection \ {Root} : \E s \in Selections : SetSelection(n, s)
    \/ \E n \in Nodes : \E v \in Visibilities : SetVisibility(n, v)

Spec == Init /\ [][Next]_vars

(***************************************************************************)
(* SpecCursor: the driver measures and arranges the tree from its root;    *)
(* between the calls the application moves either cursor and shows or      *)
(* collapses the entities that carry one.                                  *)
(***************************************************************************)
NextCursor ==
    \/ Measure(Root)
    \/ \E p \in ParentSizes : Arrange(Root, p)
    \/ \E n \in HasSelection : \E s \in Selections : SetSelection(n, s)
    \/ \E n \in HasSelection : \E v \in Visibilities : SetVisibility(n, v)

SpecCursor == Init /\ [][NextCursor]_vars

(***************************************************************************)
(* SpecLeaf: the driver measures and arranges the childless cursor alone,  *)
(* the application changes its selection and visibility, and the run       *)
(* remembers its latest operations.                                        *)
(***************************************************************************)
Leaf == CHOOSE n \in HasSelection : children[n] = <<>>

LeafMeasure == MeasureStep(Leaf) /\ Track("measure", Leaf)

LeafArrange(p) == ArrangeStep(Leaf, p) /\ Track("arrange", Leaf)

LeafSetSelection(s) == SetSelectionStep(Leaf, s) /\ Track("set_selection", Leaf)

LeafSetVisibility(v) == SetVisibilityStep(Leaf, v) /\ Track("set_visibility", Leaf)

NextLeaf ==
    \/ LeafMeasure
    \/ \E p \in ParentSizes : LeafArrange(p)
    \/ \E s \in Selections : LeafSetSelection(s)
    \/ \E v \in Visibilities : LeafSetVisibility(v)

SpecLeaf == Init /\ [][NextLeaf]_vars

(***************************************************************************)
(* SpecSize: the driver measures and arranges from the root while the      *)
(* application changes the root's constraint; the run remembers its latest *)
(* operations.                                                             *)
(***************************************************************************)
SizeMeasure == MeasureStep(Root) /\ Track("measure", Root)

SizeArrange(p) == ArrangeStep(Root, p) /\ Track("arrange", Root)

SizeSetConstraint(c) == SetConstraintStep(Root, c) /\ Track("set_constraint", Root)

NextSize ==
    \/ SizeMeasure
    \/ \E p \in ParentSizes : SizeArrange(p)
    \/ \E c \in Constraints : SizeSetConstraint(c)

SpecSize == Init /\ [][NextSize]_vars

(***************************************************************************)
(* SpecGeometry: the driver measures and arranges the tree from its root;  *)
(* between the calls the application changes the root's constraint and     *)
(* shows or collapses the root.                                            *)
(***************************************************************************)
SetConstraint(n, c) == SetConstraintStep(n, c) /\ UNCHANGED hist

NextGeometry ==
    \/ Measure(Root)
    \/ \E p \in ParentSizes : Arrange(Root, p)
    \/ \E c \in SignedConstraints : SetConstraint(Root, c)
    \/ \E v \in Visibilities : SetVisibility(Root, v)

SpecGeometry == Init /\ [][NextGeometry]_vars

(***************************************************************************)
(* SpecCaret: the driver measures and arranges the tree from its root, the *)
(* text box; between the calls the application moves the caret anywhere in *)
(* the text or one index beyond it, sets or removes the explicit offset    *)
(* and changes the font size.                                              *)
(***************************************************************************)
SetOffset(n, o) == SetOffsetStep(n, o) /\ UNCHANGED hist

SetFontSize(n, f) == SetFontSizeStep(n, f) /\ UNCHANGED hist

NextCaret ==
    \/ Measure(Root)
    \/ \E p \in ParentSizes : Arrange(Root, p)
    \/ \E s \in CaretSelections : SetSelection(Root, s)
    \/ \E o \in Offsets : SetOffset(Root, o)
    \/ \E f \in FontSizes : SetFontSize(Root, f)

SpecCaret == Init /\ [][NextCaret]_vars

(***************************************************************************)
(* SpecRegistry: the tree is built before every layout is registered.  The *)
(* root's layout is registered from the start, any other entity's may be   *)
(* registered later; the driver measures and arranges from the root and    *)
(* the application moves either cursor.                                    *)
(***************************************************************************)
InitLazy ==
    /\ visibility = [n \in Nodes |-> "Visible"]
    /\ constraint = [n \in Nodes |-> Size(InitialConstraint[n][1], InitialConstraint[n][2])]
    /\ text_selection = [n \in Nodes |-> DefaultSelection]
    /\ font_size = [n \in Nodes |-> InitialFontSize[n]]
    /\ offset = [n \in Nodes |-> InitialOffset[n]]
    /\ margin_left = [n \in Nodes |-> 0]
    /\ bounds = [n \in Nodes |-> Size(0, 0)]
    /\ layouts \in {reg \in SUBSET Nodes : Root \in reg}
    /\ \E d \in BOOLEAN : desired_size = [n \in Nodes |-> DirtySizeOf(0, 0, d)]
    /\ old_text_selection = [n \in Nodes |-> DefaultSelection]
    /\ call = NoCall
    /\ ret = Size(0, 0)
    /\ log = <<>>
    /\ hist = <<>>

Register(n) == RegisterStep(n) /\ UNCHANGED hist

NextRegistry ==
    \/ Measure(Root)
    \/ \E p \in ParentSizes : Arrange(Root, p)
    \/ \E n \in Nodes \ {Root} : Register(n)
    \/ \E n \in HasSelection : \E s \in Selections : SetSelection(n, s)

SpecRegistry == InitLazy /\ [][NextRegistry]_vars

(***************************************************************************)
(* SpecPass: layout runs in full passes.  From a scene in which no cache   *)
(* is dirty, the application changes selections, visibilities and the      *)
(* nested cursor's constraint between passes only; a pass is a measure of  *)
(* the root followed by an arrange of the root.                            *)
(***************************************************************************)
\* the widths the application constrains the nested cursor to
LeafConstraints == {Size(w, InitialConstraint[Leaf][2]) : w \in ConstraintValues}

InitClean == Init /\ \A n \in Nodes : ~dirty(desired_size[n])

\* a pass is under way: the root was measured and is not yet arranged
InPass == call.op = "measure"

PassMeasure == ~InPass /\ Measure(Root)

PassArrange(p) == InPass /\ Arrange(Root, p)

PassSetSelection(n, s) == ~InPass /\ SetSelection(n, s)

PassSetVisibility(n, v) == ~InPass /\ SetVisibility(n, v)

PassSetConstraint(n, c) == ~InPass /\ SetConstraint(n, c)

NextPass ==
    \/ PassMeasure
    \/ \E p \in ParentSizes : PassArrange(p)
    \/ \E n \in HasSelection : \E s \in Selections : PassSetSelection(n, s)
    \/ \E n \in Nodes : \E v \in Visibilities : PassSetVisibility(n, v)
    \/ \E c \in LeafConstraints : PassSetConstraint(Leaf, c)

SpecPass == InitClean /\ [][NextPass]_vars

(***************************************************************************)
(* Vocabulary of the properties.                                           *)
(***************************************************************************)
Kids(n) == {children[n][i] : i \in 1 .. Len(children[n])}

RECURSIVE Descendants(_)
Descendants(n) == Kids(n) \cup UNION {Descendants(k) : k \in Kids(n)}

Ancestors(n) == {a \in Nodes : n \in Descendants(a)}

Leaves == {n \in Nodes : children[n] = <<>>}

\* positions of the log at which entity n has an event ev
At(l, ev, n) == {i \in 1 .. Len(l) : l[i].ev = ev /\ l[i].node = n}

\* the entities an operation measured / arranged, the top one included
Measured(l) == {n \in Nodes : At(l, "measure", n) # {}}

Arranged(l) == {n \in Nodes : At(l, "arrange", n) # {}}

\* positions of the log that write a component or a cache
WritesIn(l) == {i \in 1 .. Len(l) : l[i].ev \in {"set_left", "set_bounds", "set_dirty"}}

\* the latest k operations of a tracked run
Recent(k) == IF Len(hist) >= k THEN SubSeq(hist, Len(hist) - k + 1, Len(hist)) ELSE <<>>

\* the step taken is a measure / an arrange of entity n
MeasureOf(n) == call'.op = "measure" /\ call'.node = n

ArrangeOf(n) == call'.op = "arrange" /\ call'.node = n

(***************************************************************************)
(* C1.  An arrange of a node whose cache is not dirty returns the cached   *)
(* size and changes nothing: no bounds or margin is written, no child is   *)
(* arranged, and the node's cached size, dirty flag and cached prior       *)
(* selection stay as they were.                                            *)
(***************************************************************************)
C1_CleanArrangeIsNoOp ==
    [][\A n \in Nodes :
          (ArrangeOf(n) /\ ~dirty(desired_size[n]))
          => /\ ret' = size(desired_size[n])
             /\ bounds' = bounds
             /\ margin_left' = margin_left
             /\ desired_size' = desired_size
             /\ old_text_selection' = old_text_selection
             /\ WritesIn(log') = {}
             /\ Arranged(log') = {n}]_vars

\* a short-circuited arrange of a node with children has happened, and the
\* bounds an observer reads are not the size it returned
C1_Witness ==
    /\ call.op = "arrange"
    /\ Kids(call.node) # {}
    /\ Len(log) = 2
    /\ ret = size(desired_size[call.node])
    /\ bounds[call.node] # ret

(***************************************************************************)
(* C2.  After a full pass (measure, then arrange) on a dirty node, a       *)
(* second arrange with the same parent size and no input changed returns   *)
(* the size the first arrange returned.                                    *)
(***************************************************************************)
\* the state follows a measure and then an arrange of n that ran (the node
\* was dirty: the arrange cleared the flag)
AfterFullPass(n) ==
    /\ Recent(2) = << Op("measure", n), Op("arrange", n) >>
    /\ call.op = "arrange" /\ call.node = n
    /\ At(log, "set_dirty", n) # {}

C2_SecondArrangeSameSize ==
    [][\A n \in Nodes :
          (AfterFullPass(n) /\ ArrangeOf(n) /\ call'.arg = call.arg)
          => ret' = ret]_vars

(***************************************************************************)
(* C3.  In a tree whose nodes are all registered, whatever the nodes'      *)
(* visibility: when a leaf's own measure would report dirty, a measure of  *)
(* the root leaves every ancestor of that leaf, the root included, dirty.  *)
(***************************************************************************)
\* what measure called on leaf n alone would return, in the current state
WouldReportDirty(n) == dirty(measure(Current, n).ret)

C3_Original_DirtyReachesRoot ==
    [][(MeasureOf(Root) /\ layouts = Nodes)
          => \A n \in Leaves :
                WouldReportDirty(n)
                => \A a \in Ancestors(n) : dirty(desired_size'[a])]_vars

\* C3 as amended: the same, for a leaf none of whose ancestors is collapsed
\* (a collapsed node returns before it measures any child).
C3_DirtyReachesRootUnlessCollapsed ==
    [][(MeasureOf(Root) /\ layouts = Nodes)
          => \A n \in Leaves :
                (WouldReportDirty(n) /\ \A a \in Ancestors(n) : ~IsCollapsed(a))
                => \A a \in Ancestors(n) : dirty(desired_size'[a])]_vars

\* a measure of the root has made the leaf at depth 2 and both its ancestors
\* dirty while the other branch stayed clean and the root's own selection is
\* the one it had cached: the flags came up from the leaf
C3_Witness ==
    /\ call.op = "measure" /\ call.node = Root
    /\ \A n \in Nodes : ~IsCollapsed(n)
    /\ \E n \in Leaves :
          /\ Cardinality(Ancestors(n)) = 2
          /\ text_selection[n] # DefaultSelection
          /\ \A a \in Ancestors(n) \cup {n} : dirty(desired_size[a])
          /\ \A m \in Nodes \ (Ancestors(n) \cup {n}) : ~dirty(desired_size[m])
    /\ text_selection[Root] = DefaultSelection

(***************************************************************************)
(* C4.  After a pass whose arrange wrote the node's bounds, when the        *)
(* node's constraint changes on an axis to a positive value other than the *)
(* cached one (selection and descendants unchanged), the next measure      *)
(* returns dirty, and the arrange after it runs and writes the new width   *)
(* to the node's bounds.                                                   *)
(***************************************************************************)
\* the bounds of n hold the width an arrange wrote from the cache
BoundsCurrent(n) ==
    n \in HasBounds /\ bounds[n].width > 0 /\ bounds[n].width = desired_size[n].width

ConstraintMovedSize(n) ==
    \/ constraint[n].width > 0 /\ constraint[n].width # desired_size[n].width
    \/ constraint[n].height > 0 /\ constraint[n].height # desired_size[n].height

C4_ConstraintChangeMarksDirty ==
    [][\A n \in Nodes :
          /\ ( /\ Recent(3) = << Op("measure", n), Op("arrange", n), Op("set_constraint", n) >>
               /\ ~IsCollapsed(n)
               /\ BoundsCurrent(n)
               /\ ~dirty(desired_size[n])
               /\ ConstraintMovedSize(n)
               /\ MeasureOf(n) )
             => dirty(ret')
          /\ ( /\ Recent(3) = << Op("arrange", n), Op("set_constraint", n), Op("measure", n) >>
               /\ ~IsCollapsed(n)
               /\ n \in HasBounds
               /\ bounds[n].width # desired_size[n].width
               /\ ArrangeOf(n) )
             => /\ At(log', "set_bounds", n) # {}
                /\ bounds'[n].width = desired_size[n].width]_vars

(***************************************************************************)
(* C5.  A measure of a non-collapsed node that carries a selection sets    *)
(* the dirty flag when the selection differs from the cached prior         *)
(* selection; when they are equal the flag changes only through a child    *)
(* that returned dirty.                                                    *)
(***************************************************************************)
C5_SelectionSetsDirty ==
    [][\A n \in HasSelection :
          (MeasureOf(n) /\ ~IsCollapsed(n))
          => IF text_selection[n] # old_text_selection[n]
             THEN dirty(desired_size'[n]) /\ dirty(ret')
             ELSE dirty(desired_size'[n])
                     = (dirty(desired_size[n])
                           \/ \E c \in Kids(n) \cap layouts : dirty(desired_size'[c]))]_vars

\* a measure of the root has left the root dirty with every other node
\* clean and the root's selection moved off its default: only the root's own
\* selection can have set the flag (an arrange from the root clears all)
C5_Witness ==
    /\ call.op = "measure" /\ call.node = Root
    /\ ~IsCollapsed(Root)
    /\ Root \in HasSelection
    /\ text_selection[Root] # DefaultSelection
    /\ old_text_selection[Root] = text_selection[Root]
    /\ dirty(ret)
    /\ \A m \in Nodes \ {Root} : ~dirty(desired_size[m])

(***************************************************************************)
(* C6.  A childless non-collapsed node, three measures in a row with no    *)
(* arrange: when the selection start index changes between the first and   *)
(* the second, the second reports dirty, and the third, with the second's  *)
(* selection, does not report dirty.                                       *)
(***************************************************************************)
\* the state follows a measure, a change of the selection and a second
\* measure of n
AfterChangedSecondMeasure(n) ==
    /\ Recent(3) = << Op("measure", n), Op("set_selection", n), Op("measure", n) >>
    /\ children[n] = <<>>
    /\ ~IsCollapsed(n)

C6_Original_ThirdMeasureClean ==
    [][\A n \in Nodes :
          (AfterChangedSecondMeasure(n) /\ MeasureOf(n))
          => dirty(ret) /\ ~dirty(ret')]_vars

\* C6 as amended: the third measure reports the flag the second reported
\* (still dirty: measure never clears the flag) and changes nothing.
C6_ThirdMeasureSameAsSecond ==
    [][\A n \in Nodes :
          (AfterChangedSecondMeasure(n) /\ MeasureOf(n))
          => /\ dirty(ret)
             /\ ret' = ret
             /\ desired_size' = desired_size
             /\ old_text_selection' = old_text_selection]_vars

\* the three measures have happened, the selection changed after the first
C6_Witness ==
    /\ Recent(4) = << Op("measure", Leaf), Op("set_selection", Leaf),
                      Op("measure", Leaf), Op("measure", Leaf) >>
    /\ ~IsCollapsed(Leaf)
    /\ dirty(ret)
    /\ old_text_selection[Leaf] = text_selection[Leaf]

(***************************************************************************)
(* C7.  After a measure of a node that carries a selection, whatever its   *)
(* visibility, the cached prior selection equals the node's selection.     *)
(***************************************************************************)
C7_Original_PriorSelectionSynced ==
    [][\A n \in HasSelection :
          MeasureOf(n) => old_text_selection'[n] = text_selection'[n]]_vars

\* C7 as amended: that holds for every node the call measured that is not
\* collapsed; a collapsed node's cached prior selection is left as it was.
C7_PriorSelectionSyncedUnlessCollapsed ==
    [][\A n \in HasSelection :
          (call'.op = "measure" /\ n \in Measured(log'))
          => IF IsCollapsed(n)
             THEN old_text_selection'[n] = old_text_selection[n]
             ELSE old_text_selection'[n] = text_selection'[n]]_vars

\* a measure of a visible node has cached a selection other than the one the
\* layout was built with
C7_Witness ==
    /\ call.op = "measure"
    /\ call.node \in HasSelection
    /\ ~IsCollapsed(call.node)
    /\ text_selection[call.node] # DefaultSelection
    /\ old_text_selection[call.node] = text_selection[call.node]

(***************************************************************************)
(* C8.  measure is idempotent within a pass: a second measure of the same  *)
(* node right after the first, nothing changed in between, returns the     *)
(* same size and dirty flag and leaves every node's cached size, dirty     *)
(* flag and cached prior selection as the first left them.                 *)
(***************************************************************************)
C8_MeasureIdempotent ==
    [][\A n \in Nodes :
          (call.op = "measure" /\ call.node = n /\ MeasureOf(n))
          => /\ ret' = ret
             /\ desired_size' = desired_size
             /\ old_text_selection' = old_text_selection]_vars

\* a measure of the root that walked the whole tree, applied a constraint
\* and found a changed selection at the deepest leaf
C8_Witness ==
    /\ call.op = "measure" /\ call.node = Root
    /\ Measured(log) = Nodes
    /\ ret.width > 0
    /\ dirty(ret)
    /\ \E n \in Leaves : text_selection[n] # DefaultSelection /\ dirty(desired_size[n])

(***************************************************************************)
(* C9.  When arrange runs on a dirty node, every registered child's        *)
(* arrange, given the node's resolved size, completes before the node's    *)
(* bounds are written; the dirty flag is cleared after the bounds write;   *)
(* and the flag is false when arrange returns.                             *)
(***************************************************************************)
C9_ArrangeOrder ==
    [][\A n \in Nodes :
          (ArrangeOf(n) /\ dirty(desired_size[n]))
          => /\ \A c \in Kids(n) \cap layouts :
                   /\ \E a \in At(log', "arrange", c) :
                         log'[a] = Event("arrange", c, ret'.width, ret'.height)
                   /\ At(log', "return", c) # {}
                   /\ \A r \in At(log', "return", c) :
                         \A b \in At(log', "set_bounds", n) : r < b
             /\ n \in HasBounds => At(log', "set_bounds", n) # {}
             /\ At(log', "set_dirty", n) # {}
             /\ \A b \in At(log', "set_bounds", n) :
                   \A d \in At(log', "set_dirty", n) : b < d
             /\ \A d \in At(log', "set_dirty", n) :
                   log'[d].w = BoolNum(FALSE) /\ d + 1 = Len(log')
             /\ ~dirty(desired_size'[n])]_vars

\* an arrange of the root has run, arranged its children, one of which ran
\* too, and written the root's bounds
C9_Witness ==
    /\ call.op = "arrange" /\ call.node = Root
    /\ At(log, "set_bounds", Root) # {}
    /\ \E c \in Kids(Root) : At(log, "set_dirty", c) # {}
    /\ \A c \in Kids(Root) : At(log, "return", c) # {}
    /\ ret.width > 0
    /\ bounds[Root] = ret

(***************************************************************************)
(* C10.  A measure of a collapsed node returns size (0,0) whatever its     *)
(* constraint, selection and text, sets the cached size to (0,0), measures *)
(* no child, and leaves the dirty flag and the cached prior selection      *)
(* unchanged.                                                              *)
(***************************************************************************)
C10_CollapsedMeasure ==
    [][\A n \in Nodes :
          (call'.op = "measure" /\ n \in Measured(log') /\ IsCollapsed(n))
          => /\ desired_size'[n] = DirtySizeOf(0, 0, dirty(desired_size[n]))
             /\ old_text_selection'[n] = old_text_selection[n]
             /\ Measured(log') \cap Descendants(n) = {}
             /\ \A m \in Descendants(n) :
                   /\ desired_size'[m] = desired_size[m]
                   /\ old_text_selection'[m] = old_text_selection[m]
             /\ n = call'.node
                   => /\ size(ret') = Size(0, 0)
                      /\ dirty(ret') = dirty(desired_size[n])
                      /\ Len(log') = 1]_vars

\* a measure of a collapsed node with children, a positive constraint and a
\* selection other than the cached one has returned (0,0)
C10_Witness ==
    /\ call.op = "measure"
    /\ IsCollapsed(call.node)
    /\ Kids(call.node) # {}
    /\ constraint[call.node].width > 0 /\ constraint[call.node].height > 0
    /\ call.node \in HasText
    /\ text_selection[call.node] # old_text_selection[call.node]
    /\ size(ret) = Size(0, 0)
    /\ bounds[call.node].width > 0

(***************************************************************************)
(* C11.  After a measure of a non-collapsed node, on each axis on its own: *)
(* a constraint value greater than 0 is the returned and cached size on    *)
(* that axis; with a value of 0 or below, the returned and cached size on  *)
(* that axis is the one cached before the call.  The sizes the children    *)
(* measured alter neither axis.                                            *)
(***************************************************************************)
C11_ConstraintResolvesSize ==
    [][\A n \in Nodes :
          (call'.op = "measure" /\ n \in Measured(log') /\ ~IsCollapsed(n))
          => /\ desired_size'[n].width = IF constraint[n].width > 0
                                         THEN constraint[n].width ELSE desired_size[n].width
             /\ desired_size'[n].height = IF constraint[n].height > 0
                                          THEN constraint[n].height ELSE desired_size[n].height
             /\ n = call'.node => size(ret') = size(desired_size'[n])]_vars

\* a measure of the root with one axis constrained and the other not (0 or
\* negative) has kept a cached height that no positive-sized child has
C11_Witness ==
    /\ call.op = "measure" /\ call.node = Root
    /\ ~IsCollapsed(Root)
    /\ constraint[Root].width > 0
    /\ constraint[Root].height < 0
    /\ ret.width = constraint[Root].width
    /\ ret.height > 0
    /\ \E c \in Kids(Root) \cup Descendants(Root) : desired_size[c].height > 0
    /\ \A c \in Descendants(Root) : desired_size[c].height # ret.height

(***************************************************************************)
(* C12.  When arrange runs on a dirty node that has text, font size, a     *)
(* selection whose start_index is within the text and a margin, and the    *)
(* prefix [0, start_index) of the text does not end with a space, the left *)
(* margin written is the oracle's width of that prefix plus the node's     *)
(* explicit offset (0 when it has none), whatever the left margin was      *)
(* before the call.                                                        *)
(***************************************************************************)
\* entities whose arrange measures a caret
CaretNodes == HasText \cap HasSelection \cap HasMargin

\* the explicit offset of n, 0 when it has none
ExplicitOffset(n) == IF offset[n] = <<>> THEN 0 ELSE offset[n][1]

\* the prefix [0, start_index) of n's text, for a start_index within it
CaretPrefix(n) == SubSeq(TextOf[n], 1, text_selection[n].start_index)

StartWithinText(n) == text_selection[n].start_index <= Len(TextOf[n])

C12_CaretAtPrefixWidth ==
    [][\A n \in CaretNodes :
          ( /\ ArrangeOf(n) /\ dirty(desired_size[n])
            /\ StartWithinText(n)
            /\ ~EndsWithSpace(CaretPrefix(n)) )
          => /\ margin_left'[n]
                   = font_measure_width(CaretPrefix(n), font_size[n]) + ExplicitOffset(n)
             /\ At(log', "set_left", n) # {}]_vars

\* an arrange has moved the caret behind a non-empty prefix that does not end
\* with a space, with an explicit offset on top
C12_Witness ==
    /\ call.op = "arrange" /\ call.node \in CaretNodes
    /\ At(log, "set_left", call.node) # {}
    /\ StartWithinText(call.node)
    /\ CaretPrefix(call.node) # <<>>
    /\ ~EndsWithSpace(CaretPrefix(call.node))
    /\ offset[call.node] # <<>>
    /\ margin_left[call.node]
          = font_measure_width(CaretPrefix(call.node), font_size[call.node])
               + offset[call.node][1]

(***************************************************************************)
(* C13.  When the prefix [0, start_index) ends with a space, the left      *)
(* margin written is the oracle's width of the prefix plus exactly half    *)
(* the oracle's width of the glyph "a" (plus the explicit offset), for     *)
(* every integer width of "a", odd ones included.                          *)
(***************************************************************************)
C13_TrailingSpaceAddsExactHalf ==
    [][\A n \in CaretNodes :
          ( /\ ArrangeOf(n) /\ dirty(desired_size[n])
            /\ StartWithinText(n)
            /\ EndsWithSpace(CaretPrefix(n)) )
          => 2 * (margin_left'[n]
                     - font_measure_width(CaretPrefix(n), font_size[n])
                     - ExplicitOffset(n))
                = font_measure_width(<<"a">>, font_size[n])]_vars

(***************************************************************************)
(* C14.  When arrange runs on a dirty node whose selection start_index is  *)
(* greater than the length of its text, the text measurement contributes   *)
(* nothing: the left margin written is the explicit offset alone (0 when   *)
(* absent), and the call completes every later step: each registered child *)
(* is arranged, the bounds are written, the dirty flag is cleared and the  *)
(* size is returned.                                                       *)
(***************************************************************************)
C14_StartBeyondTextSkipsMeasure ==
    [][\A n \in CaretNodes :
          (ArrangeOf(n) /\ dirty(desired_size[n]) /\ ~StartWithinText(n))
          => /\ margin_left'[n] = ExplicitOffset(n)
             /\ \A c \in Kids(n) \cap layouts :
                   At(log', "arrange", c) # {} /\ At(log', "return", c) # {}
             /\ n \in HasBounds
                   => At(log', "set_bounds", n) # {} /\ bounds'[n] = ret'
             /\ At(log', "set_dirty", n) # {}
             /\ ~dirty(desired_size'[n])
             /\ ret'.width = desired_size[n].width
             /\ log'[Len(log')] = Event("return", n, ret'.width, ret'.height)]_vars

\* an arrange has run to its end with the caret beyond the text and an
\* explicit offset present: the margin is the offset alone
C14_Witness ==
    /\ call.op = "arrange" /\ call.node \in CaretNodes
    /\ ~StartWithinText(call.node)
    /\ At(log, "set_left", call.node) # {}
    /\ offset[call.node] # <<>>
    /\ margin_left[call.node] = offset[call.node][1]
    /\ ret.width > 0
    /\ bounds[call.node] = ret
    /\ ~dirty(desired_size[call.node])

(***************************************************************************)
(* C15.  A child listed in the tree but absent from the registry is        *)
(* skipped by measure and by arrange: the call completes, the skipped      *)
(* child adds nothing to the parent's dirty flag, nothing of the skipped   *)
(* child's state is touched, and every registered child of the same parent *)
(* is still measured and arranged.                                         *)
(***************************************************************************)
\* the entities the step's call visited, by measure or by arrange
Visited(l) == Measured(l) \cup Arranged(l)

\* nothing the layout of c holds or writes for c changes in the step
Untouched(c) ==
    /\ desired_size'[c] = desired_size[c]
    /\ old_text_selection'[c] = old_text_selection[c]
    /\ bounds'[c] = bounds[c]
    /\ margin_left'[c] = margin_left[c]

C15_UnregisteredChildSkipped ==
    [][\A n \in Nodes : \A c \in Kids(n) \ layouts :
          (call'.op \in {"measure", "arrange"} /\ n \in Visited(log'))
          => /\ \A m \in {c} \cup Descendants(c) : m \notin Visited(log') /\ Untouched(m)
             /\ (call'.op = "measure" /\ ~IsCollapsed(n))
                   => /\ \A k \in Kids(n) \cap layouts : k \in Measured(log')
                      /\ dirty(desired_size'[n])
                            = \/ dirty(desired_size[n])
                              \/ n \in HasSelection /\ text_selection[n] # old_text_selection[n]
                              \/ \E k \in Kids(n) \cap layouts : dirty(desired_size'[k])
             /\ (call'.op = "arrange" /\ dirty(desired_size[n]))
                   => /\ \A k \in Kids(n) \cap layouts : k \in Arranged(log')
                      /\ ~dirty(desired_size'[n])
             /\ call'.op = "measure" => ret' = desired_size'[call'.node]
             /\ call'.op = "arrange"
                   => log'[Len(log')] = Event("return", call'.node, ret'.width, ret'.height)]_vars

\* a measure of the root has skipped an unregistered child whose selection
\* had moved, measured the registered child next to it, and returned clean
C15_Witness ==
    /\ call.op = "measure" /\ call.node = Root
    /\ \E n \in Measured(log) : \E c \in Kids(n) \ layouts :
          /\ c \in HasSelection
          /\ text_selection[c] # old_text_selection[c]
          /\ c \notin Measured(log)
    /\ \E c \in Kids(Root) \ layouts : \E k \in Kids(Root) \cap layouts : k \in Measured(log)
    /\ ~dirty(ret)

(***************************************************************************)
(* C16.  The second loop over the children alone gives the results of the  *)
(* two loops: measure restructured to recurse into the children once,      *)
(* after the constraint is applied, returns the same size and dirty flag   *)
(* and leaves the same cached size, dirty flag and cached prior selection  *)
(* in the node and every descendant as the measure that recurses before    *)
(* and after applying the constraint, whatever the constraints,            *)
(* visibilities and selections.                                            *)
(***************************************************************************)
\* two walks end with the same return value and the same caches
SameResult(a, b) ==
    /\ a.ret = b.ret
    /\ a.desired_size = b.desired_size
    /\ a.old_text_selection = b.old_text_selection

\* in every state, started at any registered node, and on every measure the
\* driver makes
C16_SinglePassEquivalent ==
    /\ [](\A n \in layouts : SameResult(measure(Current, n), measure_once(Current, n)))
    /\ [][\A n \in layouts :
             MeasureOf(n)
             => LET once == measure_once(Current, n)
                IN  /\ ret' = once.ret
                    /\ desired_size' = once.desired_size
                    /\ old_text_selection' = once.old_text_selection]_vars

\* a measure of the root has walked a tree with a collapsed leaf, a moved
\* nested cursor and a width constraint on it, measuring the nested cursor
\* more than once, and returned dirty
C16_Witness ==
    /\ call.op = "measure" /\ call.node = Root
    /\ \E n \in Leaves : IsCollapsed(n) /\ n \in Measured(log)
    /\ Cardinality(At(log, "measure", Leaf)) > 1
    /\ text_selection[Leaf] # DefaultSelection
    /\ constraint[Leaf].width > 0
    /\ desired_size[Leaf].width = constraint[Leaf].width
    /\ dirty(ret)

(***************************************************************************)
(* C17.  When arrange runs on a dirty node that has bounds, the bounds     *)
(* written and the size returned are one pair: the cached width, and the   *)
(* vertical alignment's align_height of the parent-granted height, the     *)
(* cached height and the margin.  arrange does not modify the cached size, *)
(* so a later short-circuited arrange returns the cached height, not the   *)
(* aligned one.                                                            *)
(***************************************************************************)
\* the height the step's call granted to entity n: the driver's for the
\* entity it arranged, the parent's resolved height for one beneath it
GrantedHeight(l, n) == l[CHOOSE i \in At(l, "arrange", n) : TRUE].h

\* the size the call handed back for entity n
ReturnedSize(l, n) ==
    LET e == l[CHOOSE i \in At(l, "return", n) : TRUE] IN Size(e.w, e.h)

C17_BoundsAreReturnedSize ==
    [][\A n \in Nodes :
          (call'.op = "arrange" /\ n \in Arranged(log'))
          => /\ size(desired_size'[n]) = size(desired_size[n])
             /\ IF dirty(desired_size[n])
                THEN LET aligned ==
                             Size(desired_size[n].width,
                                  align_height(VerticalAlignmentOf[n], GrantedHeight(log', n),
                                               desired_size[n].height,
                                               MarginTopOf[n], MarginBottomOf[n]))
                     IN  /\ ReturnedSize(log', n) = aligned
                         /\ n \in HasBounds => bounds'[n] = aligned
                         /\ n = call'.node => ret' = aligned
                ELSE /\ ReturnedSize(log', n) = size(desired_size[n])
                     /\ bounds'[n] = bounds[n]
                     /\ n = call'.node => ret' = size(desired_size[n])]_vars

\* an arrange of the root has run and written bounds whose height is the
\* aligned one, not the cached one, which is kept
C17_Witness ==
    /\ call.op = "arrange" /\ call.node = Root
    /\ Root \in HasBounds
    /\ At(log, "set_bounds", Root) # {}
    /\ bounds[Root] = ret
    /\ ret.width > 0
    /\ ret.width = desired_size[Root].width
    /\ ret.height # desired_size[Root].height
    /\ desired_size[Root].height > 0

(***************************************************************************)
(* C18.  In a tree whose nodes are all registered, starting with no node   *)
(* dirty, with inputs (selection, constraint, visibility) changed only     *)
(* between passes and every pass a measure of the root followed by an      *)
(* arrange of the root: outside a pass no node is dirty.  No node is left  *)
(* dirty beneath an ancestor whose arrange short-circuited.                *)
(***************************************************************************)
C18_NoDirtyOutsidePass ==
    (layouts = Nodes /\ ~InPass) => \A n \in Nodes : ~dirty(desired_size[n])

\* a pass has ended whose arrange ran down to the nested cursor and cleared
\* its flag, while another entity is collapsed
C18_Witness ==
    /\ call.op = "arrange" /\ call.node = Root
    /\ At(log, "set_dirty", Leaf) # {}
    /\ text_selection[Leaf] # DefaultSelection
    /\ old_text_selection[Leaf] = text_selection[Leaf]
    /\ \E n \in Nodes : IsCollapsed(n)
    /\ \A n \in Nodes : ~dirty(desired_size[n])

(***************************************************************************)
(* C19.  In a tree of non-collapsed nodes that are all registered, one     *)
(* measure of the root calls measure on a node at depth d exactly 2^d      *)
(* times (each parent measures every registered child twice), and one      *)
(* arrange of the root calls arrange on each node at most once.            *)
(***************************************************************************)
Depth(n) == Cardinality(Ancestors(n))

\* how many times the step's call entered ev ("measure" or "arrange") on n
Calls(l, ev, n) == Cardinality(At(l, ev, n))

AllVisibleAndRegistered == layouts = Nodes /\ \A n \in Nodes : ~IsCollapsed(n)

C19_MeasureCallsDouble ==
    [][/\ (MeasureOf(Root) /\ AllVisibleAndRegistered)
             => \A n \in Nodes : Calls(log', "measure", n) = 2 ^ Depth(n)
       /\ (ArrangeOf(Root) /\ AllVisibleAndRegistered)
             => \A n \in Nodes : Calls(log', "arrange", n) <= 1]_vars

\* a measure of the root of the fully visible tree has measured the entity
\* at depth 2 four times and those at depth 1 twice
C19_Witness ==
    /\ call.op = "measure" /\ call.node = Root
    /\ AllVisibleAndRegistered
    /\ \E n \in Nodes : Depth(n) = 2 /\ Calls(log, "measure", n) = 4
    /\ \A n \in Kids(Root) : Calls(log, "measure", n) = 2
    /\ Calls(log, "measure", Root) = 1

====
